---------------------------- MODULE Spec2Model ----------------------------
(***************************************************************************)
(* A model of disk_scan/utils.py: the wavefront directory walker scan_2    *)
(* with its worker _scan_dir, and the duplicate engines find_duplicates /  *)
(* find_duplicates_2 with read_file_size and calc_file_md5.                *)
(*                                                                         *)
(* A path is a sequence of name components.  The filesystem is a function  *)
(* from the existing canonical paths to their kind; it is read-only while  *)
(* a walk or a duplicate scan runs.  Symbolic links are not modelled.      *)
(***************************************************************************)
EXTENDS Naturals, Integers, Sequences, FiniteSets, TLC

(***************************************************************************)
(* Bounds of the model.                                                    *)
(***************************************************************************)
\* The largest number of entries below the root of a generated tree.
MaxNodes == 4

\* Names of directory entries, in the order iterdir() returns them.
NameOrder == <<"a", "b">>

\* The canonical root path and the spellings scan_2 may be given for it.
CanonRoot == <<"r">>
RootSpellings == {<<"r">>, <<"r", "a", "..">>, <<".", "r">>}

Kinds == {"file", "dir", "other"}

\* The number of file nodes handed to the duplicate engines (node 0 is a
\* directory, nodes 1..MaxFiles are files).
MaxFiles == 4

\* The hashing windows of calc_file_md5, scaled from 10 MiB to one byte each.
MD5_HEAD_SIZE == 1
MD5_TAIL_SIZE == 1
MD5_FILE_SIZE == MD5_HEAD_SIZE + MD5_TAIL_SIZE

\* The progress cadence of find_duplicates_2 (bag_counter), scaled from 100.
BAG_COUNTER == 1

Bytes == {0, 1}

\* File contents: every byte string up to one byte longer than the threshold.
MaxLen == MD5_FILE_SIZE + 1

VARIABLES
    \* ---- the filesystem and the walker (scan_2)
    fs,               \* existing canonical path -> kind
    root,             \* the root argument as spelled by the caller
    unresolved_dirs,  \* scan_2: the frontier (a list)
    resolved_files,   \* scan_2: list of files found
    resolved_dirs,    \* scan_2: list of directories handed to _scan_dir
    total_sum,        \* scan_2: last computed running total
    pc,               \* position of the scan_2 generator
    events,           \* values yielded by scan_2, in order
    cb,               \* arguments the call_back has been invoked with, in order
    failed,           \* paths whose listing raised inside _scan_dir
    rounds,           \* number of completed traversal rounds
    listed,           \* entries _scan_dir classified before any exception
    \* ---- the duplicate engines (find_duplicates, find_duplicates_2)
    engine,           \* "pool" (find_duplicates_2) or "single" (find_duplicates)
    content,          \* file node -> its bytes
    secure,           \* the secure argument
    ignore_stem,      \* the ignore_stem argument (<<>> for None)
    ignore_suffix,    \* the ignore_suffix argument (<<>> for None)
    big,              \* dict size -> list of nodes, in insertion order
    todo,             \* what the hashing loop has still to iterate over
    md5_big,          \* dict digest -> list of nodes, in insertion order
    bag_counter,      \* find_duplicates_2: countdown to the next yield
    dpc,              \* position of the duplicate generator
    devents,          \* values yielded by the duplicate generator, in order
    dcb,              \* arguments the call_back has been invoked with, in order
    md5_calls,        \* the calls of calc_file_md5 made: node and bytes hashed
    order,            \* the order in which the node set is iterated
    raised,           \* whether stat(), open() or read() has raised
    \* ---- the node filters
    fnodes,           \* the node set a filter is called with
    fcall,            \* the filter called and its arguments
    fresult,          \* what the call did: raise or return, and its stat calls
    fpc,              \* "idle", "ready" (before the call) or "over"
    \* ---- the single-threaded walker (scan)
    s_all_nodes,      \* scan: all_nodes
    s_total_sum,      \* scan: total_sum
    spc,              \* position of the scan generator
    sevents,          \* values yielded by scan, in order
    scb               \* arguments scan's call_back has been invoked with

scanVars == <<fs, root, unresolved_dirs, resolved_files, resolved_dirs,
              total_sum, pc, events, cb, failed, rounds, listed>>

dupVars == <<engine, content, secure, ignore_stem, ignore_suffix, big, todo,
             md5_big, bag_counter, dpc, devents, dcb, md5_calls, order, raised>>

filterVars == <<fnodes, fcall, fresult, fpc>>

singleVars == <<s_all_nodes, s_total_sum, spc, sevents, scb>>

vars == <<scanVars, dupVars, filterVars, singleVars>>

(***************************************************************************)
(* Sequence helpers.                                                       *)
(***************************************************************************)
SeqToSet(s) == {s[i] : i \in 1..Len(s)}

RECURSIVE Flatten(_)
Flatten(ss) == IF ss = <<>> THEN <<>> ELSE Head(ss) \o Flatten(Tail(ss))

RECURSIVE SelectSeqBy(_, _)
\* The subsequence of s whose elements are in set S, order kept.
SelectSeqBy(s, S) ==
    IF s = <<>> THEN <<>>
    ELSE (IF Head(s) \in S THEN <<Head(s)>> ELSE <<>>) \o SelectSeqBy(Tail(s), S)

(***************************************************************************)
(* multiprocessing.Pool.map / starmap.  The tasks of one call complete in  *)
(* any order; `completion` lists the task indices in the order they        *)
(* finish.  The list returned holds, at position i, the result of task i.  *)
(***************************************************************************)
\* The completion orders and iteration orders explored for n items.
Perms(n) ==
    { [i \in 1..n |-> i], [i \in 1..n |-> n + 1 - i] }

NodeOrders(n) ==
    Perms(n) \cup { [i \in 1..n |-> IF i = n THEN 1 ELSE i + 1] }

\* Results handed back in the order the tasks finished.
PoolMapUnordered(results, completion) ==
    [k \in 1..Len(results) |-> results[completion[k]]]

PoolMap(results, completion) ==
    [i \in 1..Len(results) |->
        LET k == CHOOSE k \in 1..Len(results) : completion[k] = i
        IN  results[completion[k]]]

(***************************************************************************)
(* Path.resolve(): "." components are dropped and "x/.." collapses.        *)
(***************************************************************************)
RECURSIVE ResolveFrom(_, _)
ResolveFrom(done, rest) ==
    IF rest = <<>> THEN done
    ELSE IF Head(rest) = "." THEN ResolveFrom(done, Tail(rest))
    ELSE IF Head(rest) = ".."
         THEN ResolveFrom(IF done = <<>> THEN <<>> ELSE SubSeq(done, 1, Len(done) - 1),
                          Tail(rest))
    ELSE ResolveFrom(Append(done, Head(rest)), Tail(rest))

Resolve(p) == ResolveFrom(<<>>, p)

(***************************************************************************)
(* The filesystem surface: is_file(), is_dir(), iterdir().                 *)
(***************************************************************************)
KindOf(p) == IF Resolve(p) \in DOMAIN fs THEN fs[Resolve(p)] ELSE "none"

IsFile(p) == KindOf(p) = "file"

IsDir(p) == KindOf(p) = "dir"

\* The entries of directory p in iterdir() order.
ChildrenIn(f, p) ==
    SelectSeqBy([i \in 1..Len(NameOrder) |-> Append(p, NameOrder[i])], DOMAIN f)

Children(p) == ChildrenIn(fs, p)

(***************************************************************************)
(* The finite trees: the root missing or of any kind, and up to n entries  *)
(* added below directories.                                                *)
(***************************************************************************)
EmptyFs == [p \in {} |-> "none"]

RECURSIVE Trees(_)
Trees(n) ==
    IF n = 0 THEN {EmptyFs} \cup {(CanonRoot :> k) : k \in Kinds}
    ELSE LET T == Trees(n - 1) IN
         T \cup { t @@ (Append(p, NameOrder[i]) :> k) :
                    <<t, p>> \in { <<u, q>> \in T \X (UNION {DOMAIN u : u \in T}) :
                                      /\ q \in DOMAIN u
                                      /\ u[q] = "dir" },
                    i \in 1..Len(NameOrder), k \in Kinds }

(***************************************************************************)
(* _scan_dir: the immediate children of `current`, classified.  errAt is   *)
(* the environment's answer: NoErr, or the number of entries classified    *)
(* before iterdir() / is_file() / is_dir() raised.  The bare except keeps  *)
(* what the two lists held when the exception was raised.                  *)
(***************************************************************************)
NoErr == 0 - 1

ErrChoices(current) ==
    IF ~IsDir(current) THEN {NoErr}
    ELSE {NoErr} \cup {n \in 0..Len(Children(current)) :
                          n = 0 \/ n < Len(Children(current))}

\* Whether the listing of `current` raises.
Raises(current, errAt) == ~IsDir(current) \/ errAt # NoErr

Classified(current, errAt) ==
    IF ~IsDir(current) THEN <<>>
    ELSE IF errAt = NoErr THEN Children(current)
    ELSE SubSeq(Children(current), 1, errAt)

ScanDirFilesOnly(current, errAt) ==
    LET seen == Classified(current, errAt) IN
    [files_list |-> SelectSeq(seen, IsFile),
     dirs_list  |-> <<>>]

ScanDir(current, errAt) ==
    LET seen == Classified(current, errAt) IN
    [files_list |-> SelectSeq(seen, IsFile),
     dirs_list  |-> SelectSeq(seen, LAMBDA x : ~IsFile(x) /\ IsDir(x))]

(***************************************************************************)
(* The state of an operation that is not running.                          *)
(***************************************************************************)
SingleIdle ==
    /\ s_all_nodes = {}
    /\ s_total_sum = 0
    /\ spc = "idle"
    /\ sevents = <<>>
    /\ scb = <<>>

FilterIdle ==
    /\ fnodes = {}
    /\ fcall = <<>>
    /\ fresult = <<>>
    /\ fpc = "idle"

DupIdle ==
    /\ engine = "none"
    /\ content = <<>>
    /\ secure = FALSE
    /\ ignore_stem = <<>>
    /\ ignore_suffix = <<>>
    /\ big = <<>>
    /\ todo = <<>>
    /\ md5_big = <<>>
    /\ bag_counter = 0
    /\ dpc = "idle"
    /\ devents = <<>>
    /\ dcb = <<>>
    /\ md5_calls = <<>>
    /\ order = <<>>
    /\ raised = FALSE

ScanIdle ==
    /\ fs = EmptyFs
    /\ root = <<>>
    /\ unresolved_dirs = <<>>
    /\ resolved_files = <<>>
    /\ resolved_dirs = <<>>
    /\ total_sum = 0
    /\ pc = "idle"
    /\ events = <<>>
    /\ cb = <<>>
    /\ failed = {}
    /\ rounds = 0
    /\ listed = {}


(***************************************************************************)
(* scan_2, a generator: one action per resumption.                         *)
(***************************************************************************)
\* scan_2 about to start on some tree with some spelling of the root.
ScanStart ==
    /\ fs \in Trees(MaxNodes)
    /\ root \in RootSpellings
    /\ unresolved_dirs = <<Resolve(root)>>
    /\ resolved_files = <<>>
    /\ resolved_dirs = <<>>
    /\ total_sum = 0
    /\ pc = "start"
    /\ events = <<>>
    /\ cb = <<>>
    /\ failed = {}
    /\ rounds = 0
    /\ listed = {}
    /\ DupIdle
    /\ FilterIdle

ScanInit == ScanStart /\ SingleIdle

RoundTotalDirsOnly(files, dirs) == Len(dirs)

RoundTotal(files, dirs) == Len(files) + Len(dirs)

\* One iteration of the while loop, up to and including the yield.
ScanRound ==
    /\ pc \in {"start", "yielded"}
    /\ Len(unresolved_dirs) > 0
    /\ \E errAt \in [1..Len(unresolved_dirs) -> NoErr..Len(NameOrder)],
          completion \in Perms(Len(unresolved_dirs)) :
         /\ \A i \in 1..Len(unresolved_dirs) :
               errAt[i] \in ErrChoices(unresolved_dirs[i])
         /\ LET args == unresolved_dirs
                results == PoolMap([i \in 1..Len(args) |-> ScanDir(args[i], errAt[i])],
                                   completion)
                new_files == Flatten([i \in 1..Len(args) |-> results[i].files_list])
                new_dirs == Flatten([i \in 1..Len(args) |-> results[i].dirs_list])
            IN  /\ resolved_dirs' = resolved_dirs \o args
                /\ resolved_files' = resolved_files \o new_files
                /\ unresolved_dirs' = new_dirs
                /\ total_sum' = RoundTotal(resolved_files', resolved_dirs')
                /\ events' = Append(events, total_sum')
                /\ failed' = failed \cup
                      {args[i] : i \in {j \in 1..Len(args) : Raises(args[j], errAt[j])}}
                /\ listed' = listed \cup
                      UNION {SeqToSet(Classified(args[i], errAt[i])) : i \in 1..Len(args)}
    /\ rounds' = rounds + 1
    /\ pc' = "yielded"
    /\ UNCHANGED <<fs, root, cb>>
    /\ UNCHANGED <<dupVars, filterVars, singleVars>>

AllNodesFilesOnly(dirs, files) == SeqToSet(files)

AllNodes(dirs, files) == SeqToSet(dirs) \cup SeqToSet(files)

ScanFinishTwice ==
    /\ pc = "yielded"
    /\ Len(unresolved_dirs) = 0
    /\ cb' = cb \o <<AllNodes(resolved_dirs, resolved_files),
                     AllNodes(resolved_dirs, resolved_files)>>
    /\ pc' = "done"
    /\ UNCHANGED <<fs, root, unresolved_dirs, resolved_files, resolved_dirs,
                   total_sum, events, failed, rounds, listed>>
    /\ UNCHANGED <<dupVars, filterVars, singleVars>>

\* The resumption that finds the frontier empty: build the set, call back.
ScanFinish ==
    /\ pc = "yielded"
    /\ Len(unresolved_dirs) = 0
    /\ cb' = Append(cb, AllNodes(resolved_dirs, resolved_files))
    /\ pc' = "done"
    /\ UNCHANGED <<fs, root, unresolved_dirs, resolved_files, resolved_dirs,
                   total_sum, events, failed, rounds, listed>>
    /\ UNCHANGED <<dupVars, filterVars, singleVars>>

ScanNext == ScanRound \/ ScanFinish

SpecScan == ScanInit /\ [][ScanNext]_vars

\* The caller's for loop resumes the generator until it is exhausted.  The
\* spelling of the root only matters to resolve(), so one spelling is run.
ScanInitCanon == ScanInit /\ root = CanonRoot

SpecScanFair == ScanInitCanon /\ [][ScanNext]_vars /\ WF_vars(ScanNext)

(***************************************************************************)
(* Names.  A string is a sequence of characters, so that str.lower() is    *)
(* computed.  Node i carries the stem and the suffix of its final path     *)
(* component.                                                              *)
(***************************************************************************)
LowerChar(c) ==
    CASE c = "A" -> "a"
      [] c = "B" -> "b"
      [] c = "T" -> "t"
      [] c = "D" -> "d"
      [] c = "S" -> "s"
      [] OTHER -> c

Lower(str) == [i \in 1..Len(str) |-> LowerChar(str[i])]

LowerAll(list) == [i \in 1..Len(list) |-> Lower(list[i])]

NodeStem(node) ==
    IF node = 1 THEN <<"a">>
    ELSE IF node % 2 = 0 THEN <<"b">> ELSE <<"B">>

NodeSuffix(node) == IF node = 2 THEN <<".", "T">> ELSE <<>>

\* The node set handed to the engine.
DupNodes == [i \in 1..(MaxFiles + 1) |-> i - 1]

\* The node set in the order this run iterates it.
IterNodes == [i \in 1..Len(order) |-> DupNodes[order[i]]]

NodeIsDir(node) == node = 0

StSize(node) == Len(content[node])

(***************************************************************************)
(* Python dicts of lists, as sequences of <<key, list>> in insertion order.*)
(***************************************************************************)
DictKeys(d) == {d[i][1] : i \in 1..Len(d)}

DictGet(d, k) == LET i == CHOOSE j \in 1..Len(d) : d[j][1] = k IN d[i][2]

\* d[k] = [v] when k is new, d[k].append(v) otherwise.
DictAdd(d, k, v) ==
    IF k \in DictKeys(d)
    THEN [i \in 1..Len(d) |-> IF d[i][1] = k THEN <<k, Append(d[i][2], v)>> ELSE d[i]]
    ELSE Append(d, <<k, <<v>>>>)

\* {key: value for key, value in d.items() if len(value) > 1}
MoreThanOne(entry) == Len(entry[2]) > 1

FilteredBigAll(d) == d

\* filtered_big: the size buckets that wait for hashing
FilteredBig(d) == SelectSeq(d, MoreThanOne)

RMd5BigAll(d) == d

\* r_md5_big: the report
RMd5Big(d) == SelectSeq(d, MoreThanOne)

(***************************************************************************)
(* read_file_size: None (NoSize) for a directory or an ignored name, the   *)
(* byte length otherwise.                                                  *)
(***************************************************************************)
NoSize == 0 - 1

SkipMe(node, _ignore_stem, _ignore_suffix) ==
    \/ NodeIsDir(node)
    \/ _ignore_stem # <<>> /\ Lower(NodeStem(node)) \in SeqToSet(_ignore_stem)
    \/ _ignore_suffix # <<>> /\ Lower(NodeSuffix(node)) \in SeqToSet(_ignore_suffix)

\* A sizing that takes a length of zero for "no size".
ReadFileSizeZeroAsNone(node, _ignore_stem, _ignore_suffix) ==
    IF SkipMe(node, _ignore_stem, _ignore_suffix) \/ StSize(node) = 0
    THEN NoSize ELSE StSize(node)

ReadFileSize(node, _ignore_stem, _ignore_suffix) ==
    IF SkipMe(node, _ignore_stem, _ignore_suffix) THEN NoSize ELSE StSize(node)

(***************************************************************************)
(* calc_file_md5.  A file object is its bytes and a position.  The digest  *)
(* is collision-free: the digest of b is written <<"md5", b>>.             *)
(***************************************************************************)
Min(a, b) == IF a < b THEN a ELSE b

\* f.read(n) at position pos
FRead(c, pos, n) == SubSeq(c, pos + 1, Min(pos + n, Len(c)))

\* f.seek(off, os.SEEK_END): the new position
SeekEnd(c, off) == Len(c) + off

\* f.read() at position pos
FReadAll(c, pos) == SubSeq(c, pos + 1, Len(c))

Md5(b) == <<"md5", b>>

HashedBytesHeadOnly(c, sec) ==
    IF sec THEN c
    ELSE IF Len(c) > MD5_FILE_SIZE THEN FRead(c, 0, MD5_HEAD_SIZE) ELSE c

HashedBytesIgnoreSecure(c, sec) ==
    IF Len(c) > MD5_FILE_SIZE
    THEN FRead(c, 0, MD5_HEAD_SIZE) \o FReadAll(c, SeekEnd(c, 0 - MD5_TAIL_SIZE))
    ELSE c

\* The bytes calc_file_md5 feeds to the digest.
HashedBytes(c, sec) ==
    IF sec THEN c
    ELSE IF Len(c) > MD5_FILE_SIZE
         THEN FRead(c, 0, MD5_HEAD_SIZE) \o FReadAll(c, SeekEnd(c, 0 - MD5_TAIL_SIZE))
         ELSE c

CalcFileMd5(node, sec) == Md5(HashedBytes(content[node], sec))

(***************************************************************************)
(* find_duplicates and find_duplicates_2.                                  *)
(***************************************************************************)
ByteStrings == UNION {[1..n -> Bytes] : n \in 0..MaxLen}

RECURSIVE Rank(_)
\* A total order on byte strings, to name each multiset of contents once.
Rank(c) == IF c = <<>> THEN 1 ELSE 2 * Rank(SubSeq(c, 1, Len(c) - 1)) + c[Len(c)]

RECURSIVE SortedContents(_)
\* The sequences of n byte strings of non-decreasing rank.
SortedContents(n) ==
    IF n = 0 THEN {<<>>}
    ELSE {Append(pair[1], pair[2]) :
            pair \in {x \in SortedContents(n - 1) \X ByteStrings :
                      n = 1 \/ Rank(x[1][n - 1]) <= Rank(x[2])}}

\* The contents of the file nodes, each multiset of contents once.
ContentChoices == SortedContents(MaxFiles)

\* The ignore lists given: none, or a stem list and a suffix list.
IgnoreChoices == { << <<>>, <<>> >>, << << <<"A">> >>, << <<".", "t">> >> >> }

\* A duplicate scan about to start, the node set iterated in order o.
DupStart(o) ==
    /\ ScanIdle
    /\ FilterIdle
    /\ SingleIdle
    /\ engine \in {"pool", "single"}
    /\ content \in ContentChoices
    /\ secure \in BOOLEAN
    /\ \E given \in IgnoreChoices :
          /\ ignore_stem = given[1]
          /\ ignore_suffix = given[2]
    /\ big = <<>>
    /\ todo = <<>>
    /\ md5_big = <<>>
    /\ bag_counter = 0
    /\ dpc = "start"
    /\ devents = <<>>
    /\ dcb = <<>>
    /\ md5_calls = <<>>
    /\ order = o
    /\ raised = FALSE

DupInit == DupStart([i \in 1..(MaxFiles + 1) |-> i])

IgnoreList(given) == IF given # <<>> THEN LowerAll(given) ELSE <<>>

RECURSIVE BuildBig(_, _, _)
\* The merge loop over zip(nodes, node_sizes).
BuildBig(d, nodes, sizes) ==
    IF nodes = <<>> THEN d
    ELSE BuildBig(IF Head(sizes) = NoSize THEN d ELSE DictAdd(d, Head(sizes), Head(nodes)),
                  Tail(nodes), Tail(sizes))

\* The sizes as the engine obtains them: from the pool, or one by one.
NodeSizes(nodes, completion) ==
    LET sizes == [i \in 1..Len(nodes) |->
                    ReadFileSize(nodes[i], IgnoreList(ignore_stem),
                                 IgnoreList(ignore_suffix))]
    IN  IF engine = "pool" THEN PoolMap(sizes, completion) ELSE sizes

SizeIndex(nodes, completion) ==
    BuildBig(<<>>, nodes, NodeSizes(nodes, completion))

\* Whether some node of the list is stat'ed (and so may raise).
Stats(nodes) ==
    \E i \in 1..Len(nodes) :
       ~SkipMe(nodes[i], IgnoreList(ignore_stem), IgnoreList(ignore_suffix))

\* The sizing phase of either engine, up to the start of the hashing loop.
DupSizing ==
    /\ dpc = "start"
    /\ \/ /\ \E completion \in Perms(Len(IterNodes)) :
                big' = SizeIndex(IterNodes, completion)
          /\ todo' = IF engine = "pool" THEN FilteredBig(big')
                     ELSE Flatten([i \in 1..Len(FilteredBig(big')) |->
                                      FilteredBig(big')[i][2]])
          /\ bag_counter' = IF engine = "pool" THEN BAG_COUNTER ELSE 0
          /\ dpc' = "hashing"
          /\ UNCHANGED raised
       \/ /\ Stats(IterNodes)         \* node.stat() raises
          /\ raised' = TRUE
          /\ dpc' = "failed"
          /\ UNCHANGED <<big, todo, bag_counter>>
    /\ UNCHANGED <<engine, content, secure, ignore_stem, ignore_suffix, md5_big,
                   devents, dcb, md5_calls, order>>
    /\ UNCHANGED <<scanVars, filterVars, singleVars>>

RECURSIVE MergeMd5(_, _, _)
\* The merge loop over zip(_paths, k_list).
MergeMd5(d, paths, ks) ==
    IF paths = <<>> THEN d
    ELSE MergeMd5(DictAdd(d, Head(ks), Head(paths)), Tail(paths), Tail(ks))

\* A hashing step that drops a bucket it cannot read and carries on.
HashPathsLenient(paths) ==
    \/ /\ md5_big' = MergeMd5(md5_big, paths,
                          [i \in 1..Len(paths) |-> CalcFileMd5(paths[i], secure)])
       /\ md5_calls' = md5_calls \o
             [i \in 1..Len(paths) |->
                [node |-> paths[i], b |-> HashedBytes(content[paths[i]], secure)]]
       /\ todo' = Tail(todo)
       /\ dpc' = "hashing"
       /\ UNCHANGED raised
    \/ /\ raised' = TRUE
       /\ todo' = Tail(todo)
       /\ dpc' = "hashing"
       /\ UNCHANGED <<md5_big, md5_calls>>

\* Hash the nodes of `paths` and merge them into md5_big, or raise.
HashPaths(paths) ==
    \/ /\ \E completion \in Perms(Len(paths)) :
            md5_big' = MergeMd5(md5_big, paths,
                           PoolMap([i \in 1..Len(paths) |-> CalcFileMd5(paths[i], secure)],
                                   completion))
       /\ md5_calls' = md5_calls \o
             [i \in 1..Len(paths) |->
                [node |-> paths[i], b |-> HashedBytes(content[paths[i]], secure)]]
       /\ todo' = Tail(todo)
       /\ dpc' = "hashing"
       /\ UNCHANGED raised
    \/ /\ raised' = TRUE              \* open() / read() raises
       /\ dpc' = "failed"
       /\ UNCHANGED <<md5_big, md5_calls, todo>>

\* A loop iteration that leaves the countdown where it is.
DupBucketNoCount ==
    /\ engine = "pool"
    /\ dpc = "hashing"
    /\ todo # <<>>
    /\ bag_counter > 0
    /\ bag_counter' = bag_counter
    /\ HashPaths(Head(todo)[2])
    /\ UNCHANGED <<engine, content, secure, ignore_stem, ignore_suffix, big,
                   devents, dcb, order>>
    /\ UNCHANGED <<scanVars, filterVars, singleVars>>

\* find_duplicates_2: a loop iteration that does not yield.
DupBucket ==
    /\ engine = "pool"
    /\ dpc = "hashing"
    /\ todo # <<>>
    /\ bag_counter > 0
    /\ bag_counter' = bag_counter - 1
    /\ HashPaths(Head(todo)[2])
    /\ UNCHANGED <<engine, content, secure, ignore_stem, ignore_suffix, big,
                   devents, dcb, order>>
    /\ UNCHANGED <<scanVars, filterVars, singleVars>>

\* find_duplicates_2: a loop iteration that yields `bytes <size>`.
DupYield ==
    /\ engine = "pool"
    /\ dpc = "hashing"
    /\ todo # <<>>
    /\ bag_counter = 0
    /\ devents' = Append(devents, <<"bytes", Head(todo)[1]>>)
    /\ dpc' = "yielded"
    /\ UNCHANGED <<engine, content, secure, ignore_stem, ignore_suffix, big, todo,
                   md5_big, bag_counter, dcb, md5_calls, order, raised>>
    /\ UNCHANGED <<scanVars, filterVars, singleVars>>

\* find_duplicates_2: resumed after the yield, the rest of the iteration.
DupResume ==
    /\ engine = "pool"
    /\ dpc = "yielded"
    /\ bag_counter' = BAG_COUNTER
    /\ HashPaths(Head(todo)[2])
    /\ UNCHANGED <<engine, content, secure, ignore_stem, ignore_suffix, big,
                   devents, dcb, order>>
    /\ UNCHANGED <<scanVars, filterVars, singleVars>>

\* find_duplicates: yield the node about to be read.
SingleYield ==
    /\ engine = "single"
    /\ dpc = "hashing"
    /\ todo # <<>>
    /\ devents' = Append(devents, <<"r", Head(todo)>>)
    /\ dpc' = "yielded"
    /\ UNCHANGED <<engine, content, secure, ignore_stem, ignore_suffix, big, todo,
                   md5_big, bag_counter, dcb, md5_calls, order, raised>>
    /\ UNCHANGED <<scanVars, filterVars, singleVars>>

\* A resumption that reads the node and forgets its digest.
SingleHashNoMerge ==
    /\ engine = "single"
    /\ dpc = "yielded"
    /\ md5_calls' = Append(md5_calls,
                           [node |-> Head(todo),
                            b |-> HashedBytes(content[Head(todo)], secure)])
    /\ todo' = Tail(todo)
    /\ dpc' = "hashing"
    /\ UNCHANGED <<engine, content, secure, ignore_stem, ignore_suffix, big,
                   md5_big, bag_counter, devents, dcb, order, raised>>
    /\ UNCHANGED <<scanVars, filterVars, singleVars>>

\* find_duplicates: resumed after the yield, hash the node.
SingleHash ==
    /\ engine = "single"
    /\ dpc = "yielded"
    /\ HashPaths(<<Head(todo)>>)
    /\ UNCHANGED <<engine, content, secure, ignore_stem, ignore_suffix, big,
                   bag_counter, devents, dcb, order>>
    /\ UNCHANGED <<scanVars, filterVars, singleVars>>

\* A finish that does not wait for the hashing loop to end.
DupFinishEarly ==
    /\ dpc = "hashing"
    /\ dcb' = Append(dcb, RMd5Big(md5_big))
    /\ dpc' = "done"
    /\ UNCHANGED <<engine, content, secure, ignore_stem, ignore_suffix, big, todo,
                   md5_big, bag_counter, devents, md5_calls, order, raised>>
    /\ UNCHANGED <<scanVars, filterVars, singleVars>>

\* Either engine: the loop is over, keep the shared digests, call back.
DupFinish ==
    /\ dpc = "hashing"
    /\ todo = <<>>
    /\ dcb' = Append(dcb, RMd5Big(md5_big))
    /\ dpc' = "done"
    /\ UNCHANGED <<engine, content, secure, ignore_stem, ignore_suffix, big, todo,
                   md5_big, bag_counter, devents, md5_calls, order, raised>>
    /\ UNCHANGED <<scanVars, filterVars, singleVars>>

DupNext ==
    \/ DupSizing
    \/ DupBucket
    \/ DupYield
    \/ DupResume
    \/ SingleYield
    \/ SingleHash
    \/ DupFinish

SpecDup == DupInit /\ [][DupNext]_vars

(***************************************************************************)
(* A run of either operation.                                              *)
(***************************************************************************)
Init == ScanInit \/ DupInit

Next == ScanNext \/ DupNext

Spec == Init /\ [][Next]_vars

(***************************************************************************)
(* The parallel operations, the node set iterated in any of the orders.    *)
(***************************************************************************)
OrderInit ==
    \/ ScanInit
    \/ /\ \E o \in NodeOrders(MaxFiles + 1) : DupStart(o)
       /\ engine = "pool"

OrderNext ==
    \/ ScanNext
    \/ DupSizing
    \/ DupBucket
    \/ DupYield
    \/ DupResume
    \/ DupFinish

SpecOrder == OrderInit /\ [][OrderNext]_vars

(***************************************************************************)
(* What a walk of the tree should find, stated on the tree itself.         *)
(***************************************************************************)
IsPrefix(a, q) == Len(a) <= Len(q) /\ SubSeq(q, 1, Len(a)) = a

ProperAncestors(q) == {SubSeq(q, 1, n) : n \in 1..(Len(q) - 1)}

Descendants(d) == {q \in DOMAIN fs : q # d /\ IsPrefix(d, q)}

\* The root, and every file and directory below it that is reached through
\* directories none of which is in F.
ReachableAvoiding(F) ==
    {CanonRoot} \cup
    {q \in DOMAIN fs : /\ fs[q] \in {"file", "dir"}
                       /\ \A a \in ProperAncestors(q) : fs[a] = "dir" /\ a \notin F}

\* The directories whose listing raised.
FailedDirs == {d \in failed : IsDir(d)}

Delivered == cb[1]

(***************************************************************************)
(* C1.  The node set scan_2 delivers is exactly the canonicalised root     *)
(* plus every file and directory reachable from it through directories     *)
(* whose listing succeeds; special entries are absent.                     *)
(***************************************************************************)
C1_NodeSetExact ==
    pc = "done" =>
       /\ Delivered = ReachableAvoiding(FailedDirs)
       /\ \A q \in Delivered \ {CanonRoot} : KindOf(q) \in {"file", "dir"}

(***************************************************************************)
(* C7.  A directory whose listing fails, before or after some children     *)
(* were classified, is itself in the final node set with none of its       *)
(* descendants, and the nodes outside the failed subtrees are those of a   *)
(* walk without the failure.                                               *)
(***************************************************************************)
C7_FailedDirIsolated ==
    pc = "done" =>
       \A d \in FailedDirs :
          /\ d \in Delivered
          /\ Descendants(d) \cap Delivered = {}
          /\ {q \in Delivered : ~IsPrefix(d, q)} =
                {q \in ReachableAvoiding(FailedDirs \ {d}) : ~IsPrefix(d, q)}

(***************************************************************************)
(* C9.  The last progress value of a walk equals the number of elements    *)
(* of the node set passed to the completion callback.                      *)
(***************************************************************************)
C9_LastEventIsCardinality ==
    pc = "done" =>
       /\ Len(events) >= 1
       /\ events[Len(events)] = Cardinality(Delivered)

C9_Witness ==
    /\ pc = "done"
    /\ Len(events) >= 3
    /\ Cardinality(Delivered) >= 4
    /\ FailedDirs # {}

(***************************************************************************)
(* C10.  scan_2 emits exactly one progress event per traversal round; its  *)
(* value is the number of files found and directories listed up to and     *)
(* including that round, and the values never decrease.                    *)
(***************************************************************************)
C10_OneEventPerRound ==
    /\ Len(events) = rounds
    /\ rounds > 0 =>
          /\ events[Len(events)] = Len(resolved_files) + Len(resolved_dirs)
          /\ events[Len(events)] =
                Cardinality(SeqToSet(resolved_files) \cup SeqToSet(resolved_dirs))
    /\ \A i \in 1..Len(events) : \A j \in i..Len(events) : events[i] <= events[j]

C10_Witness ==
    /\ rounds = 3
    /\ events[1] < events[2]
    /\ events[2] < events[3]
    /\ Len(resolved_files) >= 2

(***************************************************************************)
(* C8.  A run of scan_2 or of find_duplicates_2 that is driven to its end  *)
(* invokes the completion callback exactly once, with the terminal value,  *)
(* after the last progress event: never while rounds or buckets are still  *)
(* to be processed, and never a second time.                               *)
(***************************************************************************)
C8_CallbackOnceAtEnd ==
    /\ [](/\ Len(cb) <= 1
          /\ Len(dcb) <= 1
          /\ (pc = "done") <=> (Len(cb) = 1)
          /\ (dpc = "done") <=> (Len(dcb) = 1)
          /\ Len(cb) = 1 =>
                /\ unresolved_dirs = <<>>
                /\ cb[1] = SeqToSet(resolved_dirs) \cup SeqToSet(resolved_files)
          /\ Len(dcb) = 1 =>
                /\ todo = <<>>
                /\ dcb[1] = SelectSeq(md5_big, LAMBDA e : Len(e[2]) >= 2))
    /\ [][/\ (Len(cb) > 0 \/ Len(cb') > 0) => events' = events
          /\ (Len(dcb) > 0 \/ Len(dcb') > 0) => devents' = devents]_vars

C8_Witness ==
    /\ engine = "pool"
    /\ dpc = "done"
    /\ Len(devents) >= 1
    /\ Len(dcb) = 1
    /\ dcb[1] # <<>>

(***************************************************************************)
(* The candidate files of a duplicate scan, stated on the arguments.       *)
(***************************************************************************)
FileNodes == 1..MaxFiles

Ignored(n) ==
    \/ \E i \in 1..Len(ignore_stem) : Lower(ignore_stem[i]) = Lower(NodeStem(n))
    \/ \E i \in 1..Len(ignore_suffix) : Lower(ignore_suffix[i]) = Lower(NodeSuffix(n))

Candidates == {n \in FileNodes : ~Ignored(n)}

SizeOf(n) == Len(content[n])

UniqueSizeIn(S, n) == \A m \in S \ {n} : SizeOf(m) # SizeOf(n)

UniqueSize(n) == UniqueSizeIn(Candidates, n)

\* The candidates that share their byte length with another candidate.
SizeShared == LET cand == Candidates IN {n \in cand : ~UniqueSizeIn(cand, n)}

HashedNodes == {md5_calls[i].node : i \in 1..Len(md5_calls)}

Report == dcb[1]

GroupOf(k) == SeqToSet(DictGet(Report, k))

Grouped == UNION {GroupOf(k) : k \in DictKeys(Report)}

(***************************************************************************)
(* C2.  A candidate file whose byte length is unique among the candidates  *)
(* is never passed to calc_file_md5 and appears in no group of the report, *)
(* in find_duplicates_2 and in find_duplicates.                            *)
(***************************************************************************)
C2_UniqueSizeNeverHashed ==
    dpc # "idle" =>
       LET cand == Candidates
           unique == {n \in cand : UniqueSizeIn(cand, n)}
       IN  /\ unique \cap HashedNodes = {}
           /\ dpc = "done" => unique \cap Grouped = {}

C2_Witness ==
    /\ dpc = "done"
    /\ ignore_suffix # <<>>
    /\ Cardinality(Candidates) >= 2
    /\ \E n \in Candidates :
          /\ UniqueSize(n)
          /\ \E m \in FileNodes \ Candidates : content[m] = content[n]

(***************************************************************************)
(* C3.  The report holds exactly the signatures that two or more hashed    *)
(* candidate files map to, each with all the hashed files of that          *)
(* signature, whatever size buckets they came from; no group has fewer     *)
(* than two members.                                                       *)
(***************************************************************************)
SignatureOf(n) == Md5(HashedBytes(content[n], secure))

C3_ReportIsSharedSignatures ==
    (engine = "pool" /\ dpc = "done") =>
       LET shared == SizeShared IN
       /\ DictKeys(Report) =
             {SignatureOf(n) :
                n \in {m \in shared :
                         \E o \in shared \ {m} : SignatureOf(o) = SignatureOf(m)}}
       /\ \A i \in 1..Len(Report) :
             /\ SeqToSet(Report[i][2]) =
                   {n \in shared : SignatureOf(n) = Report[i][1]}
             /\ Len(Report[i][2]) = Cardinality(SeqToSet(Report[i][2]))
             /\ Len(Report[i][2]) >= 2
             /\ \A j \in 1..Len(Report) : Report[j][1] = Report[i][1] => j = i

C3_Witness ==
    /\ engine = "pool"
    /\ dpc = "done"
    /\ Len(Report) = 1
    /\ Cardinality(SizeShared) = 4
    /\ Cardinality(Grouped) = 2
    /\ \E n \in SizeShared \ Grouped : \E m \in Grouped : SizeOf(n) = SizeOf(m)

(***************************************************************************)
(* C4.  With a collision-free digest, every group of the report consists   *)
(* of files of one single byte length (default mode included).             *)
(***************************************************************************)
C4_GroupsOfOneLength ==
    dpc = "done" =>
       \A k \in DictKeys(Report) :
          \A n \in GroupOf(k) : \A m \in GroupOf(k) : SizeOf(n) = SizeOf(m)

HeadOf(c) == SubSeq(c, 1, MD5_HEAD_SIZE)

TailOf(c) == SubSeq(c, Len(c) - MD5_TAIL_SIZE + 1, Len(c))

SameEndsOnly(n, m) ==
    /\ n # m
    /\ SizeOf(n) = SizeOf(m)
    /\ SizeOf(n) > MD5_HEAD_SIZE + MD5_TAIL_SIZE
    /\ HeadOf(content[n]) = HeadOf(content[m])
    /\ TailOf(content[n]) = TailOf(content[m])
    /\ content[n] # content[m]

InCommonGroup(n, m) == \E k \in DictKeys(Report) : {n, m} \subseteq GroupOf(k)

C6_MiddleBytesAndSecure ==
    (engine = "pool" /\ dpc = "done") =>
       LET cand == Candidates IN
       \A n \in cand : \A m \in cand :
          SameEndsOnly(n, m) => (InCommonGroup(n, m) <=> ~secure)

C6_Witness ==
    /\ engine = "pool"
    /\ dpc = "done"
    /\ secure
    /\ Report # <<>>
    /\ \E n \in Candidates : \E m \in Candidates :
          SameEndsOnly(n, m) /\ ~InCommonGroup(n, m)


(***************************************************************************)
(* Depth in the tree: the root is at depth 0.                              *)
(***************************************************************************)
Depth(q) == Len(q) - Len(CanonRoot)

DirsAtDepth(k) == {q \in DOMAIN fs : fs[q] = "dir" /\ Depth(q) = k}

\* The largest depth of a directory of the tree (0 when there is none).
DirDepth ==
    LET D == {Depth(q) : q \in {p \in DOMAIN fs : fs[p] = "dir"}}
    IN  IF D = {} THEN 0 ELSE CHOOSE d \in D : \A e \in D : e <= d

Frontier == SeqToSet(unresolved_dirs)

(***************************************************************************)
(* C11 as stated.  After k rounds the frontier holds exactly the           *)
(* directories at depth k, the walk ends after directory depth plus one    *)
(* rounds, and the node set is eventually delivered.                       *)
(***************************************************************************)
C11_RoundsAreDepthPlusOne ==
    /\ [](/\ rounds > 0 => Frontier = DirsAtDepth(rounds)
          /\ pc = "done" => rounds = DirDepth + 1)
    /\ <>(pc = "done" /\ Len(cb) = 1)

(***************************************************************************)
(* C11, amended.  After k rounds the frontier holds only directories at    *)
(* depth k, and all of them while no listing has failed; the walk ends     *)
(* after at most directory depth plus one rounds, exactly that many when   *)
(* no listing fails, and the node set is eventually delivered.             *)
(***************************************************************************)
C11_RoundsBoundedByDepth ==
    /\ [](/\ rounds = 0 => Frontier = {CanonRoot}
          /\ rounds > 0 => Frontier \subseteq DirsAtDepth(rounds)
          /\ (rounds > 0 /\ FailedDirs = {}) => Frontier = DirsAtDepth(rounds)
          /\ pc = "done" => /\ Frontier = {}
                            /\ rounds <= DirDepth + 1
                            /\ FailedDirs = {} => rounds = DirDepth + 1)
    /\ <>(pc = "done" /\ Len(cb) = 1)

C11_Witness ==
    /\ pc = "done"
    /\ Len(cb) = 1
    /\ DirDepth >= 2
    /\ FailedDirs # {}
    /\ rounds <= DirDepth

(***************************************************************************)
(* Group membership of a report: each signature with its set of nodes.     *)
(***************************************************************************)
Membership(rep) == {<<rep[i][1], SeqToSet(rep[i][2])>> : i \in 1..Len(rep)}

(***************************************************************************)
(* C12.  For a fixed filesystem the node set scan_2 delivers and the group *)
(* membership find_duplicates_2 reports are functions of the filesystem    *)
(* alone: the same whatever order the tasks of a wave complete in and      *)
(* whatever order the input node set is iterated in.                       *)
(***************************************************************************)
C12_OrderIndependent ==
    /\ pc = "done" =>
          Delivered = {CanonRoot} \cup {q \in listed : fs[q] \in {"file", "dir"}}
    /\ (engine = "pool" /\ dpc \in {"hashing", "yielded", "done"}) =>
          LET cand == Candidates IN
          Membership(big) =
             {<<z, {n \in cand : SizeOf(n) = z}>> : z \in {SizeOf(n) : n \in cand}}
    /\ (engine = "pool" /\ dpc = "done") =>
          LET shared == SizeShared
              sigs == {SignatureOf(n) :
                         n \in {m \in shared :
                                  \E o \in shared \ {m} :
                                     SignatureOf(o) = SignatureOf(m)}}
          IN  Membership(Report) =
                 {<<k, {n \in shared : SignatureOf(n) = k}>> : k \in sigs}

C12_Witness ==
    /\ engine = "pool"
    /\ dpc = "done"
    /\ order # [i \in 1..(MaxFiles + 1) |-> i]
    /\ \E i \in 1..Len(Report) : Report[i][2][1] > Report[i][2][2]

(***************************************************************************)
(* C13.  Once stat(), open() or read() of a candidate has raised during    *)
(* sizing or hashing, in either engine, the scan is aborted: the           *)
(* completion callback is not invoked and no report, partial or not, is    *)
(* delivered.                                                              *)
(***************************************************************************)
C13_FailureAborts ==
    raised => /\ dpc = "failed"
              /\ dcb = <<>>

\* A read fails when a group of two has already been collected.
C13_Witness ==
    /\ raised
    /\ dpc = "failed"
    /\ todo # <<>>
    /\ \E i \in 1..Len(md5_big) : Len(md5_big[i][2]) >= 2

(***************************************************************************)
(* C14.  When two or more files of length zero are among the candidates    *)
(* (not skipped by the ignore lists), the report delivered holds one group *)
(* that includes all of them.                                              *)
(***************************************************************************)
ZeroLength == {n \in Candidates : SizeOf(n) = 0}

C14_EmptyFilesGrouped ==
    dpc = "done" =>
       LET Z == ZeroLength IN
       Cardinality(Z) >= 2 =>
          \E i \in 1..Len(Report) : Z \subseteq SeqToSet(Report[i][2])

\* Two empty candidates, and a third empty file that an ignore list skips.
C14_Witness ==
    /\ engine = "pool"
    /\ dpc = "done"
    /\ Cardinality(ZeroLength) = 2
    /\ Cardinality(Candidates) < MaxFiles
    /\ \E n \in FileNodes \ Candidates : SizeOf(n) = 0

(***************************************************************************)
(* The node filters.  A node is a path together with what the filesystem   *)
(* answers for it: its final component, its kind and its st_size.  An      *)
(* optional argument is <<>> for None and <<v>> for the value v.           *)
(***************************************************************************)
\* The largest node set a filter is called with.
MaxSet == 2

DS_Store == <<".", "D", "S", "_", "S", "t", "o", "r", "e">>

FNames ==
    { <<"a", ".", "T">>, <<"B", ".", "t">>, <<"b">>, <<".", "_", "a">>,
      DS_Store, DS_Store \o <<".", "t">> }

FSizes == {0, 1, 2}

FNodes == [name : FNames, kind : {"file", "dir"}, st_size : FSizes]

None == <<>>

Some(v) == <<v>>

\* Python truth of an optional list: neither None nor empty.
Truthy(opt) == opt # None /\ opt[1] # <<>>

\* str.rfind("."): the last position of a dot, 0 when there is none.
RFindDot(name) ==
    LET D == {i \in 1..Len(name) : name[i] = "."}
    IN  IF D = {} THEN 0 ELSE CHOOSE i \in D : \A j \in D : j <= i

\* PurePath.suffix and PurePath.stem: split at the last dot, unless it is
\* the first or the last character.
HasSuffix(name) == 1 < RFindDot(name) /\ RFindDot(name) < Len(name)

PathSuffix(name) ==
    IF HasSuffix(name) THEN SubSeq(name, RFindDot(name), Len(name)) ELSE <<>>

PathStem(name) ==
    IF HasSuffix(name) THEN SubSeq(name, 1, RFindDot(name) - 1) ELSE name

StartsWith(str, prefix) ==
    Len(prefix) <= Len(str) /\ SubSeq(str, 1, Len(prefix)) = prefix

\* The Python test `sub in str` on strings.
Contains(str, sub) ==
    \E i \in 0..(Len(str) - Len(sub)) : SubSeq(str, i + 1, i + Len(sub)) = sub

\* What a call does: it raises, or returns a set, or returns None; and the
\* number of stat() / is_dir() / is_file() calls it has made by then.
Raise(n) == [kind |-> "raise", val |-> {}, accesses |-> n]

Return(S, n) == [kind |-> "set", val |-> S, accesses |-> n]

ReturnNone(n) == [kind |-> "None", val |-> {}, accesses |-> n]

IsMacOsFile(p) ==
    \/ StartsWith(PathStem(p.name), <<".", "_">>)
    \/ PathStem(p.name) = DS_Store

ExcludeOsFiles(S) == Return({x \in S : ~IsMacOsFile(x)}, 0)

\* The comprehension of the two-bound branch: stat() for the upper bound,
\* and again for the lower bound where the first test passed.
BothBounds(S, more_than, less_than) ==
    Return({x \in S : x.st_size < less_than[1] /\ x.st_size > more_than[1]},
           Cardinality(S) + Cardinality({x \in S : x.st_size < less_than[1]}))

\* filter_by_size with the bounds compared after the sizes are read.
FilterBySizeCheckLate(S, more_than, less_than) ==
    IF more_than = None /\ less_than = None THEN Raise(0)
    ELSE IF more_than # None /\ less_than = None
    THEN Return({x \in S : x.st_size > more_than[1]}, Cardinality(S))
    ELSE IF more_than = None /\ less_than # None
    THEN Return({x \in S : x.st_size < less_than[1]}, Cardinality(S))
    ELSE IF more_than[1] >= less_than[1]
    THEN Raise(BothBounds(S, more_than, less_than).accesses)
    ELSE BothBounds(S, more_than, less_than)

\* filter_by_size with the bounds themselves let through.
FilterBySizeInclusive(S, more_than, less_than) ==
    IF more_than = None /\ less_than = None THEN Raise(0)
    ELSE IF more_than # None /\ less_than = None
    THEN Return({x \in S : x.st_size >= more_than[1]}, Cardinality(S))
    ELSE IF more_than = None /\ less_than # None
    THEN Return({x \in S : x.st_size <= less_than[1]}, Cardinality(S))
    ELSE IF more_than[1] >= less_than[1] THEN Raise(0)
    ELSE BothBounds(S, more_than, less_than)

FilterBySize(S, more_than, less_than) ==
    IF more_than = None /\ less_than = None THEN Raise(0)
    ELSE IF more_than # None /\ less_than = None
    THEN Return({x \in S : x.st_size > more_than[1]}, Cardinality(S))
    ELSE IF more_than = None /\ less_than # None
    THEN Return({x \in S : x.st_size < less_than[1]}, Cardinality(S))
    ELSE IF more_than[1] >= less_than[1] THEN Raise(0)
    ELSE BothBounds(S, more_than, less_than)

FilterBySuffixes(S, include, exclude) ==
    IF include = None /\ exclude = None THEN Raise(0)
    ELSE IF include # None /\ exclude # None THEN Raise(0)
    ELSE IF Truthy(include)
    THEN LET _include == SeqToSet(LowerAll(include[1]))
         IN  Return({x \in S : x.kind # "dir" /\ Lower(PathSuffix(x.name)) \in _include},
                    Cardinality(S))
    ELSE IF Truthy(exclude)
    THEN LET _exclude == SeqToSet(LowerAll(exclude[1]))
         IN  Return({x \in S : x.kind # "dir" /\ Lower(PathSuffix(x.name)) \notin _exclude},
                    Cardinality(S))
    ELSE ReturnNone(0)

\* The value of should_add after the two loops over the terms.
ShouldAdd(_x, _include, _exclude) ==
    LET after_include == \E i \in 1..Len(_include) : Contains(_x, _include[i])
    IN  IF \E i \in 1..Len(_exclude) : Contains(_x, _exclude[i])
        THEN FALSE ELSE after_include

\* filter_by_name with the include loop run after the exclude loop.
FilterByNameIncludeLast(S, include, exclude) ==
    LET _include == IF Truthy(include) THEN LowerAll(include[1]) ELSE <<>>
    IN  Return({x \in S : \E i \in 1..Len(_include) :
                              Contains(Lower(x.name), _include[i])}, 0)

FilterByName(S, include, exclude) ==
    LET _include == IF Truthy(include) THEN LowerAll(include[1]) ELSE <<>>
        _exclude == IF Truthy(exclude) THEN LowerAll(exclude[1]) ELSE <<>>
    IN  Return({x \in S : ShouldAdd(Lower(x.name), _include, _exclude)}, 0)

FilterDir(S) == Return({x \in S : x.kind = "dir"}, Cardinality(S))

FilterFile(S) == Return({x \in S : x.kind = "file"}, Cardinality(S))

(***************************************************************************)
(* One call of one filter on a node set, with any of the arguments below.  *)
(***************************************************************************)
RECURSIVE SetsUpTo(_)
\* The node sets of at most n nodes.
SetsUpTo(n) ==
    IF n = 0 THEN {{}}
    ELSE LET P == SetsUpTo(n - 1) IN P \cup {T \cup {x} : T \in P, x \in FNodes}

OptSizes == {None} \cup {Some(n) : n \in FSizes}

SuffixLists == { <<>>, << <<".", "t">> >>, << <<".", "T">>, <<>> >> }

OptSuffixLists == {None} \cup {Some(l) : l \in SuffixLists}

NameLists == { <<>>, << <<"A">> >>, << <<"_", "S">>, <<"T">> >>, << <<>> >> }

OptNameLists == {None} \cup {Some(l) : l \in NameLists}

FilterInit ==
    /\ ScanIdle
    /\ DupIdle
    /\ SingleIdle
    /\ fnodes \in SetsUpTo(MaxSet)
    /\ fcall = <<>>
    /\ fresult = <<>>
    /\ fpc = "ready"

\* The call is over; the input set is not written to.
Called(fn, a, b, outcome) ==
    /\ fpc = "ready"
    /\ fcall' = [fn |-> fn, a |-> a, b |-> b]
    /\ fresult' = outcome
    /\ fpc' = "over"
    /\ UNCHANGED <<fnodes, scanVars, dupVars, singleVars>>

CallExcludeOsFiles ==
    Called("exclude_os_files", None, None, ExcludeOsFiles(fnodes))

CallFilterBySize ==
    \E more_than \in OptSizes, less_than \in OptSizes :
       Called("filter_by_size", more_than, less_than,
              FilterBySize(fnodes, more_than, less_than))

CallFilterBySuffixes ==
    \E include \in OptSuffixLists, exclude \in OptSuffixLists :
       Called("filter_by_suffixes", include, exclude,
              FilterBySuffixes(fnodes, include, exclude))

CallFilterByName ==
    \E include \in OptNameLists, exclude \in OptNameLists :
       Called("filter_by_name", include, exclude,
              FilterByName(fnodes, include, exclude))

CallFilterDir == Called("filter_dir", None, None, FilterDir(fnodes))

CallFilterFile == Called("filter_file", None, None, FilterFile(fnodes))

FilterNext ==
    \/ CallExcludeOsFiles
    \/ CallFilterBySize
    \/ CallFilterBySuffixes
    \/ CallFilterByName
    \/ CallFilterDir
    \/ CallFilterFile

SpecFilter == FilterInit /\ [][FilterNext]_vars

\* A call of filter fn is over.
Over(fn) == fpc = "over" /\ fcall.fn = fn

(***************************************************************************)
(* C15.  filter_by_size with valid bounds (one bound, or a lower bound     *)
(* below the upper bound) returns exactly the nodes whose size is strictly *)
(* greater than more_than when it is given and strictly less than          *)
(* less_than when it is given; a node of a size equal to a bound is left   *)
(* out, and a bound of 0 is a bound like any other.                        *)
(***************************************************************************)
ValidBounds(more_than, less_than) ==
    /\ more_than # None \/ less_than # None
    /\ (more_than # None /\ less_than # None) => more_than[1] < less_than[1]

C15_SizeBoundsStrict ==
    (Over("filter_by_size") /\ ValidBounds(fcall.a, fcall.b)) =>
       /\ fresult.kind = "set"
       /\ fresult.val =
             {x \in fnodes : /\ fcall.a # None => x.st_size > fcall.a[1]
                             /\ fcall.b # None => x.st_size < fcall.b[1]}

\* A lower bound of 0 and an upper bound, with nodes on and between them.
C15_Witness ==
    /\ Over("filter_by_size")
    /\ fcall.a = Some(0)
    /\ fcall.b = Some(2)
    /\ \E x \in fnodes : x.st_size = 0
    /\ \E x \in fnodes : x.st_size = 1
    /\ Cardinality(fresult.val) = 1

(***************************************************************************)
(* C16.  filter_by_suffixes compares suffixes lower-cased on both sides    *)
(* and never returns a directory: with an include list the result is       *)
(* exactly the non-directory nodes whose lower-cased suffix is the         *)
(* lower-cased form of some include entry; with an exclude list, exactly   *)
(* the non-directory nodes whose lower-cased suffix is that of no entry.   *)
(***************************************************************************)
LoweredEntries(opt) == {Lower(opt[1][i]) : i \in 1..Len(opt[1])}

C16_SuffixFilterExact ==
    Over("filter_by_suffixes") =>
       /\ (fcall.a # None /\ fcall.b = None) =>
             /\ fresult.kind = "set"
             /\ fresult.val =
                   {x \in fnodes : /\ x.kind # "dir"
                                   /\ Lower(PathSuffix(x.name)) \in LoweredEntries(fcall.a)}
       /\ (fcall.a = None /\ fcall.b # None) =>
             /\ fresult.kind = "set"
             /\ fresult.val =
                   {x \in fnodes : /\ x.kind # "dir"
                                   /\ Lower(PathSuffix(x.name)) \notin LoweredEntries(fcall.b)}

(***************************************************************************)
(* C17.  filter_by_name returns exactly the nodes whose lower-cased final  *)
(* path component contains at least one lower-cased include term as a      *)
(* substring and contains no lower-cased exclude term: exclusion wins, and *)
(* a node matching no include term is never returned.                      *)
(***************************************************************************)
Terms(opt) == IF opt = None THEN {} ELSE LoweredEntries(opt)

C17_NameFilterExact ==
    Over("filter_by_name") =>
       /\ fresult.kind = "set"
       /\ fresult.val =
             {x \in fnodes :
                /\ \E t \in Terms(fcall.a) : Contains(Lower(x.name), t)
                /\ \A t \in Terms(fcall.b) : ~Contains(Lower(x.name), t)}

\* A node matching an include and an exclude term, next to one that is kept.
C17_Witness ==
    /\ Over("filter_by_name")
    /\ fcall.a = Some(<< <<"A">> >>)
    /\ fcall.b = Some(<< <<"_", "S">>, <<"T">> >>)
    /\ \E x \in fnodes : x.name = <<"a", ".", "T">>
    /\ \E x \in fresult.val : x.name = <<".", "_", "a">>

(***************************************************************************)
(* C18.  exclude_os_files removes a node if and only if its name, the      *)
(* final path component, starts with "._" or equals ".DS_Store"; every     *)
(* other node is kept.                                                     *)
(***************************************************************************)
C18_OsFilesByName ==
    Over("exclude_os_files") =>
       /\ fresult.kind = "set"
       /\ fresult.val =
             {x \in fnodes : ~(\/ StartsWith(x.name, <<".", "_">>)
                               \/ x.name = DS_Store)}

(***************************************************************************)
(* C19.  filter_by_size with neither bound or with more_than >= less_than, *)
(* and filter_by_suffixes with both lists or with neither, raise the       *)
(* configuration error before any stat() or is_dir() call on a node.       *)
(***************************************************************************)
C19_ConfigErrorBeforeAccess ==
    (\/ Over("filter_by_size") /\ ~ValidBounds(fcall.a, fcall.b)
     \/ Over("filter_by_suffixes") /\ (fcall.a = None <=> fcall.b = None)) =>
       /\ fresult.kind = "raise"
       /\ fresult.accesses = 0

\* Equal bounds given for a set of two nodes.
C19_Witness ==
    /\ Over("filter_by_size")
    /\ fcall.a = Some(1)
    /\ fcall.b = Some(1)
    /\ Cardinality(fnodes) = 2
    /\ fresult.kind = "raise"

(***************************************************************************)
(* C20.  Every node filter is total: whatever the node set and the         *)
(* arguments, empty include and exclude lists included, the call either    *)
(* raises a configuration error or returns a subset of the node set it was *)
(* given; it never returns a value that is not a node set.                 *)
(***************************************************************************)
C20_FiltersTotal ==
    fpc = "over" =>
       /\ fresult.kind \in {"raise", "set"}
       /\ fresult.kind = "set" => fresult.val \subseteq fnodes

(***************************************************************************)
(* The phases of a duplicate scan, in their order.                         *)
(***************************************************************************)
PhaseRank(at) ==
    CASE at = "start" -> 0                          \* sizing
      [] at \in {"hashing", "yielded"} -> 1         \* hashing
      [] at = "done" -> 2                           \* aggregated and delivered
      [] OTHER -> 3                                 \* failed

(***************************************************************************)
(* C21.  find_duplicates_2 moves through sizing, hashing, aggregation and  *)
(* done only forward: a file is hashed only once every size is read and    *)
(* the single-member buckets are dropped, the report is built only after   *)
(* every surviving candidate is hashed, the callback is invoked only in    *)
(* the done state with the full report, and no phase is entered again.     *)
(***************************************************************************)
C21_PhasesForward ==
    /\ [](engine = "pool" =>
            /\ dpc = "start" =>
                  big = <<>> /\ md5_big = <<>> /\ md5_calls = <<>> /\ dcb = <<>>
            /\ md5_calls # <<>> =>
                  LET cand == Candidates IN
                  /\ Membership(big) =
                        {<<z, {n \in cand : SizeOf(n) = z}>> :
                           z \in {SizeOf(n) : n \in cand}}
                  /\ HashedNodes \subseteq SizeShared
            /\ dcb # <<>> =>
                  /\ dpc = "done"
                  /\ todo = <<>>
                  /\ HashedNodes = SizeShared
                  /\ Report = RMd5Big(md5_big)
                  /\ UNION {SeqToSet(md5_big[i][2]) : i \in 1..Len(md5_big)}
                        = SizeShared)
    /\ [][engine = "pool" =>
            /\ dpc \notin {"done", "failed"}
            /\ PhaseRank(dpc') >= PhaseRank(dpc)
            /\ dpc # "start" => big' = big
            /\ dpc' = "done" => md5_big' = md5_big /\ md5_calls' = md5_calls]_vars

\* A scan that dropped a single-member bucket, hashed a pair and reported it.
C21_Witness ==
    /\ engine = "pool"
    /\ dpc = "done"
    /\ Len(big) = 3
    /\ Cardinality(HashedNodes) = 2
    /\ Len(Report) = 1

(***************************************************************************)
(* The size buckets the hashing loop iterates over, and those it has left  *)
(* behind it.                                                              *)
(***************************************************************************)
Buckets == Len(FilteredBig(big))

BucketsBegun == Buckets - Len(todo) + (IF dpc = "yielded" THEN 1 ELSE 0)

FilteredBigOf(nodes) ==
    FilteredBig(BuildBig(<<>>, nodes,
                         [i \in 1..Len(nodes) |->
                            ReadFileSize(nodes[i], IgnoreList(ignore_stem),
                                         IgnoreList(ignore_suffix))]))

RECURSIVE SingleLoop(_, _)
\* find_duplicates: node after node, bucket after bucket.
SingleLoop(d, paths) ==
    IF paths = <<>> THEN d
    ELSE SingleLoop(DictAdd(d, CalcFileMd5(Head(paths), secure), Head(paths)),
                    Tail(paths))

RECURSIVE PoolLoop(_, _)
\* find_duplicates_2: bucket after bucket, each hashed by one starmap.
PoolLoop(d, buckets) ==
    IF buckets = <<>> THEN d
    ELSE LET _paths == Head(buckets)[2] IN
         PoolLoop(MergeMd5(d, _paths,
                           [i \in 1..Len(_paths) |-> CalcFileMd5(_paths[i], secure)]),
                  Tail(buckets))

SingleReport(nodes) ==
    LET fb == FilteredBigOf(nodes) IN
    RMd5Big(SingleLoop(<<>>, Flatten([i \in 1..Len(fb) |-> fb[i][2]])))

PoolReport(nodes) == RMd5Big(PoolLoop(<<>>, FilteredBigOf(nodes)))

\* The files either engine reads: the members of the filtered size index.
ReadBy(nodes) ==
    LET fb == FilteredBigOf(nodes) IN UNION {SeqToSet(fb[i][2]) : i \in 1..Len(fb)}

(***************************************************************************)
(* C23.  find_duplicates and find_duplicates_2 agree in their result: on   *)
(* the same node set, ignore lists and secure flag, the report a finished  *)
(* run of one delivers has the signatures, and per signature the members,  *)
(* of the report of the other; and both read the same files, so a read     *)
(* that fails aborts the one exactly when it aborts the other.             *)
(***************************************************************************)
C23_EnginesAgree ==
    /\ dpc = "done" =>
          /\ Membership(Report) =
                Membership(IF engine = "pool" THEN SingleReport(IterNodes)
                           ELSE PoolReport(IterNodes))
          /\ HashedNodes = ReadBy(IterNodes)
    /\ dpc = "failed" =>
          /\ dcb = <<>>
          /\ HashedNodes \subseteq ReadBy(IterNodes)
          /\ Candidates # {}

\* The single-threaded engine has delivered two groups.
C23_Witness ==
    /\ engine = "single"
    /\ dpc = "done"
    /\ Len(Report) = 2
    /\ Len(devents) = 4

(***************************************************************************)
(* scan, the single-threaded walker, run on the tree scan_2 has walked.    *)
(* The filesystem answers it as it answered scan_2: the listing of a       *)
(* directory that raised for scan_2 raises for scan after the same         *)
(* entries.  The loop yields only at multiples of 100 nodes, which a tree  *)
(* of this size does not reach, so the first yield is the one after the    *)
(* loop.                                                                   *)
(***************************************************************************)
\* The entries current.iterdir() hands out before it ends or raises.
IterDir(current) ==
    IF current \in failed THEN SelectSeqBy(Children(current), listed)
    ELSE Children(current)

RECURSIVE ScanLoop(_, _, _)
\* The while loop: pop the head, mark a file, mark and list a directory.
ScanLoop(unresolved, all_nodes, n) ==
    IF unresolved = <<>> THEN [all_nodes |-> all_nodes, total_sum |-> n]
    ELSE LET current == Head(unresolved) IN
         IF IsFile(current)
         THEN ScanLoop(Tail(unresolved), all_nodes \cup {current}, n + 1)
         ELSE IF IsDir(current)
         THEN ScanLoop(Tail(unresolved) \o IterDir(current),
                       all_nodes \cup {current}, n + 1)
         ELSE ScanLoop(Tail(unresolved), all_nodes, n + 1)

SingleStart ==
    /\ s_all_nodes = {}
    /\ s_total_sum = 0
    /\ spc = "start"
    /\ sevents = <<>>
    /\ scb = <<>>

\* scan from its first statement to the yield after the loop.
SingleRun ==
    /\ pc = "done"
    /\ spc = "start"
    /\ LET end == ScanLoop(<<Resolve(root)>>, {}, 0)
       IN  /\ s_all_nodes' = end.all_nodes
           /\ s_total_sum' = end.total_sum
           /\ sevents' = Append(sevents, end.total_sum)
    /\ spc' = "yielded"
    /\ UNCHANGED <<scb, scanVars, dupVars, filterVars>>

\* scan resumed after its last yield: call back.
SingleFinish ==
    /\ spc = "yielded"
    /\ scb' = Append(scb, s_all_nodes)
    /\ spc' = "done"
    /\ UNCHANGED <<s_all_nodes, s_total_sum, sevents, scanVars, dupVars, filterVars>>

WalkersInit == ScanStart /\ SingleStart

WalkersNext ==
    \/ ScanRound
    \/ ScanFinish
    \/ SingleRun
    \/ SingleFinish

SpecWalkers == WalkersInit /\ [][WalkersNext]_vars

(***************************************************************************)
(* C24.  scan and scan_2 deliver the same node set to their callback, for  *)
(* every tree and every root: a root that is a plain file, a root that     *)
(* does not exist, entries that are neither file nor directory, and        *)
(* directories whose listing fails included.                               *)
(***************************************************************************)
C24_WalkersAgree ==
    (pc = "done" /\ spc = "done") => scb[1] = cb[1]
====
